---- MODULE Spec2Model ----
(***************************************************************************)
(* The response cache of the Claude / OpenAI automation scripts:           *)
(* CacheManager (in-memory tier + Firestore tier, TTL expiry),             *)
(* PersistentMemoryManager (Pinecone) and the request flow of              *)
(* process_data_with_claude.  Several automation processes, each with its  *)
(* own CacheManager, share one Firestore collection and one Pinecone       *)
(* index.  Inside one process the coroutines never suspend between the     *)
(* statements of get/set (every backend client is synchronous), so the     *)
(* steps of the model are the remote calls.                                *)
(***************************************************************************)
EXTENDS Integers, Sequences, FiniteSets, TLC

\* ------------------------------------------------------------------ bounds
Procs == {1, 2}
Prompts == {"A", "B"}
Responses == {"V1", "V2"}
\* the prompts the direct callers of CacheManager use
CachePrompts == {"A"}
MaxTime == 2
MaxTTL == 2
MaxRetries == 1
MaxRequests == 2

None == "None"

VARIABLES
  now,                  \* time.time(), in seconds
  cache_ttl,            \* CacheManager.cache_ttl
  firebase_enabled,     \* CacheManager.firebase_enabled, per process
  q4d_lens_enabled,     \* CacheManager.q4d_lens_enabled
  backend,              \* Firestore availability: "up", "flaky" or "down"
  memory_cache,         \* CacheManager.memory_cache, per process (a dict)
  memory_cache_expiry,  \* CacheManager.memory_cache_expiry, per process
  firestore,            \* the documents of the cache collection, by id
  pc,                   \* where each process stands
  call,                 \* the CacheManager call a process is executing
  last_op,              \* history: the CacheManager call that returned last
  last_set,             \* history: per process and key, its last set
  latest_set,           \* history: per key, the time of the latest set
  pinecone_enabled,     \* persistent memory is configured and connected
  semantic_enabled,     \* semantic_modeling with auto_enrichment
  index,                \* the records of the Pinecone namespace, by id
  req,                  \* the request a process is serving
  requests,             \* the number of requests received so far
  governance_enabled,   \* ClaudeAutomation.s2do_governance is set
  blockchain_enabled,   \* S2DOGovernance.blockchain_enabled with a contract
  audit_trail,          \* the records handed to _add_to_audit_trail, in order
  uuids,                \* the number of uuid4() values drawn so far
  metrics,              \* ClaudeAutomation.metrics of the worker
  running,              \* BaseAutomation.running
  error_count,          \* BaseAutomation.error_count
  current_interval,     \* run(): current_interval, in tenths of a second
  automation,           \* the "automation" section of the configuration
  sleep_time,           \* run(): the last sleep_time, in tenths of a second
  streak,               \* history: the failed executions since the last good one
  stopped_by,           \* history: who called stop()
  clock,                \* datetime.now() of the rate limiter, in seconds
  request_counts,       \* SynthesiaRateLimiter.request_counts
  last_reset,           \* SynthesiaRateLimiter.last_reset
  waiting,              \* the endpoint type wait_if_needed is waiting for
  request_log           \* history: the time of every recorded request, by type

cacheVars == <<memory_cache, memory_cache_expiry, firestore>>
\* the automation loop of openai_automation.py
loopVars ==
  <<running, error_count, current_interval, automation, sleep_time, streak,
    stopped_by>>
\* the rate limiter of synthesia_rate_limiter.py
limiterVars == <<clock, request_counts, last_reset, waiting, request_log>>
\* the configuration of the cache and of the request flow, with the state of
\* the components that no cache call and no request touches
confVars ==
  <<cache_ttl, firebase_enabled, q4d_lens_enabled, backend, governance_enabled,
    blockchain_enabled, loopVars, limiterVars>>
auditVars == <<audit_trail, uuids, metrics>>
histVars == <<last_op, last_set, latest_set>>
reqVars ==
  <<pinecone_enabled, semantic_enabled, index, req, requests, auditVars>>
vars == <<now, confVars, cacheVars, pc, call, histVars, reqVars>>

\* ------------------------------------------------------- CacheManager
\* hashlib.md5(prompt.encode()).hexdigest(): a digest of the prompt text
generate_cache_key(prompt) == <<"md5", prompt>>

Keys == {generate_cache_key(q) : q \in Prompts}

\* dict helpers: d[k] = v and del d[k]
DictSet(d, k, v) == [x \in (DOMAIN d) \cup {k} |-> IF x = k THEN v ELSE d[x]]
DictDel(d, k) == [x \in (DOMAIN d) \ {k} |-> d[x]]
EmptyDict == [x \in {} |-> None]

NoCall ==
  [op |-> "none", ret |-> "api", prompt |-> "", response |-> None,
   expiry |-> 0, current_time |-> 0, io |-> {}, mem_expired |-> FALSE,
   doc_expired |-> FALSE]

NoOp ==
  [op |-> "none", proc |-> 0, prompt |-> "", response |-> None, time |-> 0,
   tier |-> "none", io |-> {}, mem_expired |-> FALSE, doc_expired |-> FALSE,
   doc_removed |-> FALSE, delete_raised |-> FALSE, doc_expiry |-> 0,
   raised |-> "none"]

\* lines 1724-1740: the counters of self.metrics the requests update.  They
\* are written and never read by the request flow, so only the specification
\* about them follows them (observed); the others leave them out.
Unobserved ==
  [observed |-> FALSE, cache_hits |-> 0, cache_misses |-> 0, api_calls |-> 0]

\* self.metrics[counter] += 1
Count(counter) ==
  IF metrics.observed THEN [metrics EXCEPT ![counter] = @ + 1] ELSE metrics

\* BaseAutomation.__init__, lines 158-163 of openai_automation.py, with the
\* defaults of the configuration: constructed and not running
LoopOff ==
  /\ running = FALSE
  /\ error_count = 0
  /\ current_interval = 0
  /\ automation = [max_errors |-> 5, interval |-> 600, backoff_factor |-> <<3, 2>>]
  /\ sleep_time = 0
  /\ streak = 0
  /\ stopped_by = "none"

\* no SynthesiaRateLimiter has been constructed
LimiterOff ==
  /\ clock = 0
  /\ request_counts = EmptyDict
  /\ last_reset = EmptyDict
  /\ waiting = "none"
  /\ request_log = EmptyDict

NoReq ==
  [prompt |-> "", trace |-> <<>>, score |-> 0, similar_key |-> <<>>,
   attempt |-> 0, cold |-> FALSE, response |-> None,
   semantic_error |-> FALSE, transaction_id |-> 0, dropped |-> "none"]

\* a durable call may raise unless the backend is up, and may succeed unless
\* it is down
MayFail == backend \in {"flaky", "down"}
MaySucceed == backend \in {"flaky", "up"}

\* line 1545 / 1588: an entry is live iff its expiry is after current_time
MemoryLiveOff(expiry, current_time) == expiry >= current_time
MemoryLive(expiry, current_time) == expiry > current_time

\* line 1588: cache_data.get("expiry", 0) > current_time
DocLiveNever(expiry, current_time) == FALSE
DocLive(expiry, current_time) == expiry > current_time

\* line 1611: expiry = time.time() + self.cache_ttl
SetExpiryNoTtl(current_time) == current_time
SetExpiry(current_time) == current_time + cache_ttl

\* lines 1550-1551: del memory_cache[key]; del memory_cache_expiry[key]
EvictKeepsValue(d, k) == d
Evict(d, k) == DictDel(d, k)

\* lines 1591-1592: the memory entry written after a durable hit
PopulateExpiryExtended(doc, current_time) == current_time + cache_ttl
PopulateExpiry(doc, current_time) == doc.expiry

\* lines 1621-1627: the document set() writes
CacheData(prompt, response, expiry) ==
  [prompt |-> prompt, response |-> response, expiry |-> expiry,
   hash_key |-> generate_cache_key(prompt)]

\* lines 1641-1648: transaction.set(doc_ref, data) replaces the whole document
TransactionSetMerge(store, doc_id, data) ==
  IF doc_id \in DOMAIN store
  THEN DictSet(store, doc_id, [store[doc_id] EXCEPT !.response = data.response])
  ELSE DictSet(store, doc_id, data)
TransactionSet(store, doc_id, data) == DictSet(store, doc_id, data)

\* line 1596: doc_ref.delete()
DocDelete(store, doc_id) == DictDel(store, doc_id)

\* the call of process p returns: the history records a call made on the
\* cache API itself (ret = "api"), and p goes on
Return(p, rec, ret) ==
  /\ last_op' = IF ret = "api" THEN [rec EXCEPT !.proc = p] ELSE last_op
  /\ pc' = [pc EXCEPT ![p] = IF ret = "api" THEN "idle" ELSE "returned"]
  /\ call' = [call EXCEPT ![p] =
       IF ret = "api" THEN NoCall
       ELSE [NoCall EXCEPT !.op = rec.op, !.ret = ret, !.prompt = rec.prompt,
                           !.response = rec.response, !.io = rec.io]]

\* what the Firestore lookup of get() meets (lines 1554-1598)
DurableOutcomes(p, cache_key, current_time) ==
  IF ~firebase_enabled[p] THEN {"disabled"}
  ELSE IF q4d_lens_enabled
  THEN \* line 1562: Query has no optimize_query_lens; the AttributeError is
       \* caught at line 1597 before any document is read
       {"no_such_method"}
  ELSE {"read_error" : x \in {1 : y \in {1} \cap (IF MayFail THEN {1} ELSE {})}}
       \cup (IF ~MaySucceed THEN {}
             ELSE IF cache_key \notin DOMAIN firestore THEN {"missing"}
             ELSE IF DocLive(firestore[cache_key].expiry, current_time)
             THEN {"live"} ELSE {"expired"})

\* CacheManager.get, lines 1540-1600, up to the first remote call it waits
\* for: the memory lookup, then the Firestore read
GetBegin(p, prompt, ret) ==
  LET cache_key == generate_cache_key(prompt)
      current_time == now
      inMemory == cache_key \in DOMAIN memory_cache[p]
      memHit == inMemory /\ MemoryLive(memory_cache_expiry[p][cache_key], current_time)
      memExpired == inMemory /\ ~memHit
      mem1 == IF memExpired THEN Evict(memory_cache[p], cache_key)
              ELSE memory_cache[p]
      exp1 == IF memExpired THEN Evict(memory_cache_expiry[p], cache_key)
              ELSE memory_cache_expiry[p]
      base == [NoOp EXCEPT !.op = "get", !.prompt = prompt,
                           !.time = current_time, !.mem_expired = memExpired]
  IN
  IF memHit
  THEN \* lines 1545-1547
       /\ Return(p, [base EXCEPT !.response = memory_cache[p][cache_key],
                                 !.tier = "memory"], ret)
       /\ UNCHANGED cacheVars
  ELSE \E outcome \in DurableOutcomes(p, cache_key, current_time) :
       /\ UNCHANGED firestore
       /\ IF outcome = "live"
          THEN \* lines 1588-1593: update the memory cache and return
               /\ memory_cache' = [memory_cache EXCEPT ![p] =
                    DictSet(mem1, cache_key, firestore[cache_key].response)]
               /\ memory_cache_expiry' = [memory_cache_expiry EXCEPT ![p] =
                    DictSet(exp1, cache_key,
                            PopulateExpiry(firestore[cache_key], current_time))]
               /\ Return(p, [base EXCEPT !.io = {"read"}, !.tier = "durable",
                               !.response = firestore[cache_key].response,
                               !.doc_expiry = firestore[cache_key].expiry], ret)
          ELSE /\ memory_cache' = [memory_cache EXCEPT ![p] = mem1]
               /\ memory_cache_expiry' = [memory_cache_expiry EXCEPT ![p] = exp1]
               /\ IF outcome = "expired"
                  THEN \* lines 1594-1596: the delete is the next remote call
                       /\ pc' = [pc EXCEPT ![p] = "get_delete"]
                       /\ call' = [call EXCEPT ![p] =
                            [NoCall EXCEPT !.op = "get", !.ret = ret,
                               !.prompt = prompt, !.current_time = current_time,
                               !.expiry = firestore[cache_key].expiry,
                               !.mem_expired = memExpired,
                               !.doc_expired = TRUE, !.io = {"read"}]]
                       /\ UNCHANGED last_op
                  ELSE \* line 1600: return None
                       Return(p, [base EXCEPT !.io =
                                    IF outcome \in {"read_error", "missing"}
                                    THEN {"read"} ELSE {}], ret)

\* CacheManager.get, lines 1594-1600: doc_ref.delete() of the expired
\* document, which may raise (caught at line 1597); then return None
GetDelete(p) ==
  /\ pc[p] = "get_delete"
  /\ LET cache_key == generate_cache_key(call[p].prompt) IN
     \E ok \in {b \in BOOLEAN : IF b THEN MaySucceed ELSE MayFail} :
       /\ firestore' = IF ok THEN DocDelete(firestore, cache_key) ELSE firestore
       /\ Return(p, [NoOp EXCEPT !.op = "get", !.prompt = call[p].prompt,
                       !.time = call[p].current_time,
                       !.mem_expired = call[p].mem_expired,
                       !.doc_expired = TRUE, !.doc_expiry = call[p].expiry,
                       !.doc_removed = (cache_key \notin DOMAIN firestore'),
                       !.delete_raised = ~ok,
                       !.io = {"read", "delete"}], call[p].ret)
  /\ UNCHANGED <<now, confVars, memory_cache, memory_cache_expiry, last_set,
                 latest_set, reqVars>>

\* CacheManager.set, lines 1610-1618: the memory write; the Firestore write
\* is the next remote call
SetBegin(p, prompt, response, ret) ==
  LET cache_key == generate_cache_key(prompt)
      expiry == SetExpiry(now)
  IN
  /\ memory_cache' = [memory_cache EXCEPT ![p] =
       DictSet(memory_cache[p], cache_key, response)]
  /\ memory_cache_expiry' = [memory_cache_expiry EXCEPT ![p] =
       DictSet(memory_cache_expiry[p], cache_key, expiry)]
  /\ IF ret = "api"
     THEN /\ last_set' = [last_set EXCEPT ![p] =
               DictSet(last_set[p], cache_key,
                       [time |-> now, response |-> response])]
          /\ latest_set' = DictSet(latest_set, cache_key, now)
     ELSE UNCHANGED <<last_set, latest_set>>
  /\ IF firebase_enabled[p]
     THEN /\ pc' = [pc EXCEPT ![p] = "set_write"]
          /\ call' = [call EXCEPT ![p] =
               [NoCall EXCEPT !.op = "set", !.ret = ret, !.prompt = prompt,
                              !.response = response, !.expiry = expiry,
                              !.current_time = now]]
          /\ UNCHANGED last_op
     ELSE Return(p, [NoOp EXCEPT !.op = "set", !.prompt = prompt,
                                 !.response = response, !.time = now], ret)
  /\ UNCHANGED firestore

\* a set that undoes its memory write when the Firestore write raises
SetWriteRollback(p) ==
  /\ pc[p] = "set_write"
  /\ LET cache_key == generate_cache_key(call[p].prompt) IN
     \E ok \in {b \in BOOLEAN : IF b THEN MaySucceed ELSE MayFail} :
       /\ firestore' =
            IF ok
            THEN TransactionSet(firestore, cache_key,
                   CacheData(call[p].prompt, call[p].response, call[p].expiry))
            ELSE firestore
       /\ memory_cache' = [memory_cache EXCEPT ![p] =
            IF ok THEN @ ELSE DictDel(@, cache_key)]
       /\ memory_cache_expiry' = [memory_cache_expiry EXCEPT ![p] =
            IF ok THEN @ ELSE DictDel(@, cache_key)]
       /\ Return(p, [NoOp EXCEPT !.op = "set", !.prompt = call[p].prompt,
                       !.response = call[p].response,
                       !.time = call[p].current_time,
                       !.io = {"write"}], call[p].ret)
  /\ UNCHANGED <<now, confVars, last_set, latest_set, reqVars>>

\* CacheManager.set, lines 1619-1652: the transactional write of the
\* document, which may raise (caught at line 1651)
SetWrite(p) ==
  /\ pc[p] = "set_write"
  /\ LET cache_key == generate_cache_key(call[p].prompt) IN
     \E ok \in {b \in BOOLEAN : IF b THEN MaySucceed ELSE MayFail} :
       /\ firestore' =
            IF ok
            THEN TransactionSet(firestore, cache_key,
                   CacheData(call[p].prompt, call[p].response, call[p].expiry))
            ELSE firestore
       /\ Return(p, [NoOp EXCEPT !.op = "set", !.prompt = call[p].prompt,
                       !.response = call[p].response,
                       !.time = call[p].current_time,
                       !.io = {"write"}], call[p].ret)
  /\ UNCHANGED <<now, confVars, memory_cache, memory_cache_expiry, last_set,
                 latest_set, reqVars>>

\* a caller invokes cache_manager.get(prompt)
CacheGet(p, prompt) ==
  /\ pc[p] = "idle"
  /\ GetBegin(p, prompt, "api")
  /\ UNCHANGED <<now, confVars, last_set, latest_set, reqVars>>

\* a caller invokes cache_manager.set(prompt, response)
CacheSet(p, prompt, response) ==
  /\ pc[p] = "idle"
  /\ SetBegin(p, prompt, response, "api")
  /\ UNCHANGED <<now, confVars, reqVars>>

\* the clock advances
Tick ==
  /\ now < MaxTime
  /\ now' = now + 1
  /\ UNCHANGED <<confVars, cacheVars, pc, call, histVars, reqVars>>

InitCache ==
  /\ now = 0
  /\ cache_ttl \in 1..MaxTTL
  /\ firebase_enabled \in [Procs -> BOOLEAN]
  /\ q4d_lens_enabled \in BOOLEAN
  /\ backend = "flaky"
  /\ memory_cache = [p \in Procs |-> EmptyDict]
  /\ memory_cache_expiry = [p \in Procs |-> EmptyDict]
  /\ firestore = EmptyDict
  /\ pc = [p \in Procs |-> "idle"]
  /\ call = [p \in Procs |-> NoCall]
  /\ last_op = NoOp
  /\ last_set = [p \in Procs |-> EmptyDict]
  /\ latest_set = EmptyDict
  /\ pinecone_enabled = FALSE
  /\ semantic_enabled = FALSE
  /\ index = EmptyDict
  /\ req = [p \in Procs |-> NoReq]
  /\ requests = 0
  /\ governance_enabled = FALSE
  /\ blockchain_enabled = FALSE
  /\ audit_trail = <<>>
  /\ uuids = 0
  /\ metrics = Unobserved
  /\ LoopOff /\ LimiterOff

NextCache ==
  \/ \E p \in Procs, prompt \in CachePrompts : CacheGet(p, prompt)
  \/ \E p \in Procs, prompt \in CachePrompts, response \in Responses :
       CacheSet(p, prompt, response)
  \/ \E p \in Procs : GetDelete(p)
  \/ \E p \in Procs : SetWrite(p)
  \/ Tick

SpecCache == InitCache /\ [][NextCache]_vars

\* ------------------------------------------------- CacheManager: claims
\* the process whose call returned last has not started another one
Settled(p) == pc[p] \in {"idle", "returned"}

LastKey == generate_cache_key(last_op.prompt)

\* C1: a get of P by the CacheManager whose last set of P ran at time s
\* returns the value set while t < s + cache_ttl, and a get at a time when the
\* latest set of P (by anyone) is cache_ttl or more in the past returns None,
\* whichever tier answered.
TTLCorrect ==
  LET p == last_op.proc
      t == last_op.time
  IN
  (last_op.op = "get" /\ Settled(p)) =>
    /\ (LastKey \in DOMAIN last_set[p]
        /\ t < last_set[p][LastKey].time + cache_ttl)
         => last_op.response = last_set[p][LastKey].response
    /\ (LastKey \in DOMAIN latest_set => t >= latest_set[LastKey] + cache_ttl)
         => last_op.response = None

\* a get exactly cache_ttl after the set found the entry expired and missed
TTLBoundaryReached ==
  /\ last_op.op = "get"
  /\ LastKey \in DOMAIN last_set[last_op.proc]
  /\ last_op.time = last_set[last_op.proc][LastKey].time + cache_ttl
  /\ last_op.mem_expired
  /\ last_op.response = None

\* C2: a get of P that follows the same CacheManager's set(P, V) with no time
\* in between returns V from the in-memory tier and does no read, write or
\* delete on the Firestore tier.
WriteThrough ==
  LET p == last_op.proc IN
  (/\ last_op.op = "get" /\ Settled(p)
   /\ LastKey \in DOMAIN last_set[p]
   /\ last_set[p][LastKey].time = last_op.time)
    => /\ last_op.response = last_set[p][LastKey].response
       /\ last_op.tier = "memory"
       /\ last_op.io = {}

\* such a get, in a process whose Firestore tier is enabled and readable
WriteThroughReached ==
  /\ last_op.op = "get"
  /\ last_op.tier = "memory"
  /\ LastKey \in DOMAIN last_set[last_op.proc]
  /\ last_set[last_op.proc][LastKey].time = last_op.time
  /\ firebase_enabled[last_op.proc] /\ ~q4d_lens_enabled
  /\ LastKey \in DOMAIN firestore

\* C9: a get that misses the memory tier and finds a live document returns
\* the document's response and leaves the memory tier holding that response
\* with the document's own expiry; a get answered by the memory tier returns
\* the live memory entry without touching Firestore.
DurableHitPopulates ==
  LET p == last_op.proc IN
  (last_op.op = "get" /\ Settled(p)) =>
    /\ last_op.tier = "durable" =>
         /\ last_op.response \in Responses
         /\ last_op.doc_expiry > last_op.time
         /\ LastKey \in DOMAIN memory_cache[p]
         /\ LastKey \in DOMAIN memory_cache_expiry[p]
         /\ memory_cache[p][LastKey] = last_op.response
         /\ memory_cache_expiry[p][LastKey] = last_op.doc_expiry
    /\ last_op.tier = "memory" =>
         /\ memory_cache[p][LastKey] = last_op.response
         /\ memory_cache_expiry[p][LastKey] > last_op.time
         /\ last_op.io = {}

\* a durable hit on a document that was written earlier than the get
DurableHitReached ==
  /\ last_op.op = "get"
  /\ last_op.tier = "durable"
  /\ last_op.doc_expiry < last_op.time + cache_ttl

\* C10 as stated: an expired entry found by get is removed from its tier
\* before get returns, and the expired value is not returned.
EvictionOnRead ==
  LET p == last_op.proc IN
  (last_op.op = "get" /\ Settled(p)) =>
    /\ last_op.mem_expired =>
         /\ (LastKey \in DOMAIN memory_cache[p]) = (LastKey \in DOMAIN memory_cache_expiry[p])
         /\ LastKey \in DOMAIN memory_cache[p] =>
              /\ last_op.tier = "durable"
              /\ memory_cache_expiry[p][LastKey] > last_op.time
    /\ last_op.doc_expired => last_op.doc_removed
    /\ last_op.doc_expired => last_op.response = None

\* C10 amended: the expired document is removed unless doc_ref.delete()
\* itself raised; the memory entry is always removed and the expired value is
\* never returned.
EvictionOnReadUnlessDeleteFails ==
  LET p == last_op.proc IN
  (last_op.op = "get" /\ Settled(p)) =>
    /\ last_op.mem_expired =>
         /\ (LastKey \in DOMAIN memory_cache[p]) = (LastKey \in DOMAIN memory_cache_expiry[p])
         /\ LastKey \in DOMAIN memory_cache[p] =>
              /\ last_op.tier = "durable"
              /\ memory_cache_expiry[p][LastKey] > last_op.time
    /\ (last_op.doc_expired /\ ~last_op.delete_raised) => last_op.doc_removed
    /\ last_op.doc_expired => last_op.response = None

\* a get that found both its memory entry and the document expired and
\* deleted the document
EvictionReached ==
  /\ last_op.op = "get"
  /\ last_op.mem_expired
  /\ last_op.doc_expired
  /\ last_op.doc_removed
  /\ LastKey \notin DOMAIN memory_cache[last_op.proc]

\* ------------------------------------- Scenario D: two racing set calls
\* the value each process stores
ValueOf(p) == IF p = 1 THEN "V1" ELSE "V2"

\* process p sets prompt "A", once
RaceSet(p) ==
  /\ generate_cache_key("A") \notin DOMAIN last_set[p]
  /\ CacheSet(p, "A", ValueOf(p))

NextRace ==
  \/ \E p \in Procs : RaceSet(p)
  \/ \E p \in Procs : CacheGet(p, "A")
  \/ \E p \in Procs : GetDelete(p)
  \/ \E p \in Procs : SetWrite(p)
  \/ Tick

SpecRace == InitCache /\ [][NextRace]_vars

\* the (response, expiry) pairs of the set calls made so far for a key
IssuedPairs(key) ==
  {<<last_set[p][key].response, last_set[p][key].time + cache_ttl>> :
     p \in {q \in Procs : key \in DOMAIN last_set[q]}}

BothSetsDone ==
  \A p \in Procs : /\ generate_cache_key("A") \in DOMAIN last_set[p]
                   /\ pc[p] # "set_write"

\* C7: with two set calls for one key racing, every memory entry and every
\* document holds the response and the expiry of one and the same set call, a
\* get returns V1, V2 or None, and once both sets are done a get by a process
\* whose own entry is still live returns V1 or V2.
NoTornWrite ==
  /\ \A p \in Procs : \A key \in DOMAIN memory_cache[p] :
       /\ key \in DOMAIN memory_cache_expiry[p]
       /\ <<memory_cache[p][key], memory_cache_expiry[p][key]>> \in IssuedPairs(key)
  /\ \A key \in DOMAIN firestore :
       /\ <<firestore[key].response, firestore[key].expiry>> \in IssuedPairs(key)
       /\ firestore[key].hash_key = key
       /\ generate_cache_key(firestore[key].prompt) = key
  /\ last_op.op = "get" =>
       /\ last_op.response \in {"V1", "V2", None}
       /\ (/\ BothSetsDone /\ Settled(last_op.proc)
           /\ last_op.time < last_set[last_op.proc][LastKey].time + cache_ttl)
            => last_op.response \in {"V1", "V2"}

\* both sets are done, they ran at different times, and a reader was served
\* the document
RaceObserved ==
  /\ BothSetsDone
  /\ last_set[1][generate_cache_key("A")].time # last_set[2][generate_cache_key("A")].time
  /\ last_op.op = "get"
  /\ last_op.tier = "durable"

\* ------------------------ graceful degradation: two caches in lockstep
\* Process 1 has the Firestore tier enabled on a backend that fails every
\* call; process 2 has the tier disabled.  Every call is made on 1 and then,
\* at the same clock reading, on 2.
InitDown ==
  /\ now = 0
  /\ cache_ttl \in 1..MaxTTL
  /\ firebase_enabled = [p \in Procs |-> p = 1]
  /\ q4d_lens_enabled \in BOOLEAN
  /\ backend = "down"
  /\ memory_cache = [p \in Procs |-> EmptyDict]
  /\ memory_cache_expiry = [p \in Procs |-> EmptyDict]
  /\ firestore = EmptyDict
  /\ pc = [p \in Procs |-> "idle"]
  /\ call = [p \in Procs |-> NoCall]
  /\ last_op = NoOp
  /\ last_set = [p \in Procs |-> EmptyDict]
  /\ latest_set = EmptyDict
  /\ pinecone_enabled = FALSE
  /\ semantic_enabled = FALSE
  /\ index = EmptyDict
  /\ req = [p \in Procs |-> NoReq]
  /\ requests = 0
  /\ governance_enabled = FALSE
  /\ blockchain_enabled = FALSE
  /\ audit_trail = <<>>
  /\ uuids = 0
  /\ metrics = Unobserved
  /\ LoopOff /\ LimiterOff

InSync == last_op.proc # 1 /\ \A p \in Procs : pc[p] = "idle"

LeadGet(prompt) == InSync /\ CacheGet(1, prompt)

LeadSet(prompt, response) == InSync /\ CacheSet(1, prompt, response)

LeadSetWrite == SetWrite(1)

FollowGet ==
  /\ last_op.proc = 1 /\ last_op.op = "get" /\ pc[1] = "idle"
  /\ CacheGet(2, last_op.prompt)

FollowSet ==
  /\ last_op.proc = 1 /\ last_op.op = "set" /\ pc[1] = "idle"
  /\ CacheSet(2, last_op.prompt, last_op.response)

TickInSync == InSync /\ Tick

NextDegraded ==
  \/ \E prompt \in Prompts : LeadGet(prompt)
  \/ \E prompt \in Prompts, response \in Responses : LeadSet(prompt, response)
  \/ LeadSetWrite
  \/ FollowGet
  \/ FollowSet
  \/ TickInSync

SpecDegraded == InitDown /\ [][NextDegraded]_vars

\* C3: for every sequence of get and set calls, the cache whose backend fails
\* every call returns what the cache without a durable tier returns and holds
\* the same in-memory entries; no call ends in an exception.
DegradedEquivalent ==
  [][(last_op.proc = 1 /\ last_op'.proc = 2) =>
       /\ last_op'.op = last_op.op
       /\ last_op'.response = last_op.response
       /\ memory_cache'[1] = memory_cache'[2]
       /\ memory_cache_expiry'[1] = memory_cache_expiry'[2]]_vars

\* both caches have answered a get that found the entry expired, after the
\* failing one tried (and was refused) a Firestore write and a Firestore read
DegradedMissReached ==
  /\ last_op.proc = 2
  /\ last_op.op = "get"
  /\ last_op.mem_expired
  /\ last_op.response = None
  /\ ~q4d_lens_enabled
  /\ firestore = EmptyDict

\* --------------------------------------- PersistentMemoryManager (Pinecone)
\* line 1818 / 2002: memory_key = f"prompt_{md5(prompt)}"
MemoryKey(prompt) == <<"prompt_", generate_cache_key(prompt)>>

\* _generate_embedding, lines 988-1028: the vector of a text, as the place of
\* the text on a line
Embed(text) ==
  CASE text = "A" -> 0
    [] text = "B" -> 1
    [] text = "V1" -> 8
    [] text = "V2" -> 9
    [] OTHER -> 50

\* the score of a match (line 839: metric = "cosine"), in hundredths
Similarity(u, v) == 100 - (IF u > v THEN u - v ELSE v - u)

\* line 1843: semantic_results[0]["score"] > 0.92, in hundredths
SemanticThreshold == 92

\* an acceptance test that takes a score equal to the threshold
AcceptAtThreshold(score) == score >= SemanticThreshold
Accept(score) == score > SemanticThreshold

\* store_memory, lines 883-909: the vector is the embedding of the content
\* (the response), the metadata carries the response
MemoryRecord(response, timestamp) ==
  [vector |-> Embed(response), response |-> response, timestamp |-> timestamp]

\* search_semantic with top_k = 1, lines 966-980: the ids with the best score
TopMatches(prompt) ==
  {k \in DOMAIN index :
     \A j \in DOMAIN index :
       Similarity(Embed(prompt), index[k].vector)
         >= Similarity(Embed(prompt), index[j].vector)}

\* --------------------------------- ClaudeAutomation.process_data_with_claude
\* a request flow that opens with the semantic search
SemanticFirst == IF pinecone_enabled THEN "search_semantic" ELSE "check_cache"
\* line 1814: persistent memory is looked up by key first when it is configured
FirstStage == IF pinecone_enabled THEN "retrieve_by_key" ELSE "check_cache"

\* line 1840: after an exact-key miss, the semantic search when it is enabled
AfterMemoryMiss == IF semantic_enabled THEN "search_semantic" ELSE "check_cache"

\* a per-key in-flight lock: wait while another request serves the prompt
ProviderLocked(p) ==
  \A q \in Procs \ {p} : ~(pc[q] # "idle" /\ req[q].prompt = req[p].prompt)
\* lines 1888-1898: after a miss nothing holds a request back from the API
ProviderFree(p) == TRUE

\* no cache tier holds the prompt
Cold(prompt) ==
  /\ \A q \in Procs : generate_cache_key(prompt) \notin DOMAIN memory_cache[q]
  /\ generate_cache_key(prompt) \notin DOMAIN firestore
  /\ MemoryKey(prompt) \notin DOMAIN index

\* the request of process p ends: it returns (or raises, outcome "failed")
Finish(p) ==
  /\ req' = [req EXCEPT ![p] = NoReq]
  /\ pc' = [pc EXCEPT ![p] = "idle"]

\* ------------------------------------------------------ S2DOGovernance
\* record_transaction, lines 726-735: the record as it is handed to the
\* audit trail; id is a fresh uuid, data carries the caller's transaction_id
\* (0 when the caller passes none)
TransactionRecord(id, type, transaction_id) ==
  [id |-> id, type |-> type, data |-> [transaction_id |-> transaction_id],
   status |-> "recorded"]

\* record_transaction, lines 738-751: with blockchain anchoring the hash is
\* put into the same record after it was handed to the audit trail
Anchored(record) ==
  IF blockchain_enabled
  THEN record @@ [blockchain_hash |-> <<"sha256", record.id, record.type>>]
  ELSE record

\* what a call of record_transaction does when governance is configured:
\* it records, or _add_to_audit_trail (line 735, not guarded) raises
AuditOutcomes == IF governance_enabled THEN {"recorded", "raised"} ELSE {"off"}

\* one call site of record_transaction with outcome a, after the step has
\* drawn `drawn` uuids of its own
Audit(type, transaction_id, a, drawn) ==
  /\ uuids' = uuids + drawn + (IF a = "off" THEN 0 ELSE 1)
  /\ audit_trail' =
       IF a = "recorded"
       THEN LET record == TransactionRecord(uuids + drawn + 1, type,
                                            transaction_id)
            IN Append(audit_trail,
                      [handed |-> record, record |-> Anchored(record)])
       ELSE audit_trail

\* lines 1780-1814: a request arrives
StartRequest(p, prompt) ==
  /\ pc[p] = "idle" /\ requests < MaxRequests
  /\ requests' = requests + 1
  /\ \E a \in AuditOutcomes :
       \* line 1798: transaction_id = str(uuid.uuid4()); lines 1801-1811: the
       \* request transaction, recorded outside any try
       /\ Audit("claude_request", 0, a, 1)
       /\ UNCHANGED metrics
       /\ IF a = "raised"
          THEN UNCHANGED <<req, pc>>
          ELSE /\ req' = [req EXCEPT ![p] =
                    [NoReq EXCEPT !.prompt = prompt, !.cold = Cold(prompt),
                                  !.transaction_id = uuids + 1]]
               /\ pc' = [pc EXCEPT ![p] = FirstStage]
  /\ UNCHANGED <<now, confVars, cacheVars, call, histVars, pinecone_enabled,
                 semantic_enabled, index>>

\* lines 1815-1837 with retrieve_by_key, lines 927-943: the fetch by key; an
\* exception of the fetch is caught in retrieve_by_key and gives None
RetrieveByKey(p) ==
  /\ pc[p] = "retrieve_by_key"
  /\ LET memory_key == MemoryKey(req[p].prompt)
         r == [req[p] EXCEPT !.trace = Append(@, "memory_key")]
     IN \E ok \in BOOLEAN :
          IF ok /\ memory_key \in DOMAIN index
          THEN \* lines 1827-1837: record the hit and return the response;
               \* a raising record_transaction is caught at line 1867
               \E a \in AuditOutcomes :
                 /\ Audit("memory_hit", r.transaction_id, a, 0)
                 \* line 1824, before the record is made
                 /\ metrics' = Count("cache_hits")
                 /\ IF a = "raised"
                    THEN /\ req' = [req EXCEPT ![p] =
                              [r EXCEPT !.dropped = "memory_hit"]]
                         /\ pc' = [pc EXCEPT ![p] = "check_cache"]
                    ELSE Finish(p)
          ELSE /\ req' = [req EXCEPT ![p] = r]
               /\ pc' = [pc EXCEPT ![p] = AfterMemoryMiss]
               /\ UNCHANGED auditVars
  /\ UNCHANGED <<now, confVars, cacheVars, call, histVars, pinecone_enabled,
                 semantic_enabled, index, requests>>

\* a semantic stage whose failure ends the request with an exception
SemanticErrorRaises == "idle"
\* search_semantic, lines 963-965 and 984-986: a failure gives no results,
\* and line 1843 then falls through to the cache lookup
OnSemanticError == "check_cache"

\* lines 1840-1847 with search_semantic, lines 956-986: the similarity query;
\* a failure of the embedding or of the query gives no results
SearchSemantic(p) ==
  /\ pc[p] = "search_semantic"
  /\ LET r == [req[p] EXCEPT !.trace = Append(@, "semantic")] IN
     \E ok \in BOOLEAN :
       IF ok /\ DOMAIN index # {}
       THEN \E k \in TopMatches(r.prompt) :
              LET score == Similarity(Embed(r.prompt), index[k].vector) IN
              /\ req' = [req EXCEPT ![p] =
                   [r EXCEPT !.score = score, !.similar_key = k]]
              /\ pc' = [pc EXCEPT ![p] =
                   IF Accept(score) THEN "retrieve_similar" ELSE "check_cache"]
       ELSE IF ok
       THEN /\ req' = [req EXCEPT ![p] = r]
            /\ pc' = [pc EXCEPT ![p] = "check_cache"]
       ELSE /\ req' = [req EXCEPT ![p] = [r EXCEPT !.semantic_error = TRUE]]
            /\ pc' = [pc EXCEPT ![p] = OnSemanticError]
  /\ UNCHANGED <<now, confVars, cacheVars, call, histVars, pinecone_enabled,
                 semantic_enabled, index, requests, auditVars>>

\* lines 1848-1866: the fetch of the similar record
RetrieveSimilar(p) ==
  /\ pc[p] = "retrieve_similar"
  /\ LET r == [req[p] EXCEPT !.trace = Append(@, "similar_key")] IN
     \E ok \in BOOLEAN :
       IF ok /\ r.similar_key \in DOMAIN index
       THEN \* lines 1854-1866: record the hit and return the response; a
            \* raising record_transaction is caught at line 1867
            \E a \in AuditOutcomes :
              /\ Audit("semantic_hit", r.transaction_id, a, 0)
              \* line 1852, before the record is made
              /\ metrics' = Count("cache_hits")
              /\ IF a = "raised"
                 THEN /\ req' = [req EXCEPT ![p] =
                           [r EXCEPT !.dropped = "semantic_hit"]]
                      /\ pc' = [pc EXCEPT ![p] = "check_cache"]
                 ELSE Finish(p)
       ELSE /\ req' = [req EXCEPT ![p] = r]
            /\ pc' = [pc EXCEPT ![p] = "check_cache"]
            /\ UNCHANGED auditVars
  /\ UNCHANGED <<now, confVars, cacheVars, call, histVars, pinecone_enabled,
                 semantic_enabled, index, requests>>

\* line 1871: cached_response = await self.cache_manager.get(prompt)
CheckCache(p) ==
  /\ pc[p] = "check_cache"
  /\ GetBegin(p, req[p].prompt, "request")
  /\ req' = [req EXCEPT ![p].trace = Append(@, "cache")]
  /\ UNCHANGED <<now, confVars, last_set, latest_set, pinecone_enabled,
                 semantic_enabled, index, requests, auditVars>>

\* lines 1872-1888: a cached response is returned, a miss goes on to the API
AfterGet(p) ==
  /\ pc[p] = "returned" /\ call[p].op = "get"
  /\ call' = [call EXCEPT ![p] = NoCall]
  /\ IF call[p].response # None
     THEN \* lines 1878-1886: record the hit and return call[p].response;
          \* a raising record_transaction reaches the caller
          /\ \E a \in AuditOutcomes :
               Audit("cache_hit", req[p].transaction_id, a, 0)
          \* line 1874
          /\ metrics' = Count("cache_hits")
          /\ Finish(p)
     ELSE \* line 1888
          /\ metrics' = Count("cache_misses")
          /\ pc' = [pc EXCEPT ![p] = "call_provider"]
          /\ UNCHANGED <<req, audit_trail, uuids>>
  /\ UNCHANGED <<now, confVars, cacheVars, histVars, pinecone_enabled,
                 semantic_enabled, index, requests>>

\* lines 2060-2070: the transaction type recorded when the last attempt failed
FailureTypeError == "api_call_error"
FailureType == "api_call_failure"

\* lines 2035-2073, the except block of one attempt of request r: record
\* the error and retry, or record the failure and raise; a raising
\* record_transaction in it reaches the caller
HandleError(p, r, drawn) ==
  \E a \in AuditOutcomes :
    IF r.attempt < MaxRetries
    THEN /\ Audit("api_call_error", r.transaction_id, a, drawn)
         /\ IF a = "raised"
            THEN Finish(p)
            ELSE /\ req' = [req EXCEPT ![p] = [r EXCEPT !.attempt = @ + 1]]
                 /\ UNCHANGED pc
    ELSE /\ Audit(FailureType, r.transaction_id, a, drawn)
         /\ Finish(p)

\* lines 1895-1998: one attempt: the API answers, the success is recorded
\* and the response is cached; a raising record_transaction (line 1971) is
\* caught by the except block of the attempt, before the response is cached
ProviderAnswers(p, response) ==
  /\ pc[p] = "call_provider" /\ ProviderFree(p)
  \* line 1898
  /\ metrics' = Count("api_calls")
  /\ \E a \in AuditOutcomes :
       IF a = "raised"
       THEN /\ HandleError(p, [req[p] EXCEPT !.dropped = "api_call_success"], 1)
            /\ UNCHANGED <<cacheVars, call, histVars>>
       ELSE /\ Audit("api_call_success", req[p].transaction_id, a, 0)
            /\ SetBegin(p, req[p].prompt, response, "request")
            /\ req' = [req EXCEPT ![p].response = response]
  /\ UNCHANGED <<now, confVars, pinecone_enabled, semantic_enabled, index,
                 requests>>

\* lines 2035-2073: one attempt: the API call raises; retry or give up
ProviderFails(p) ==
  /\ pc[p] = "call_provider" /\ ProviderFree(p)
  \* line 1898
  /\ metrics' = Count("api_calls")
  /\ HandleError(p, req[p], 0)
  /\ UNCHANGED <<now, confVars, cacheVars, call, histVars, pinecone_enabled,
                 semantic_enabled, index, requests>>

\* lines 2000-2034 with store_memory, lines 879-915: the response is stored
\* in persistent memory (a failure there is caught and logged), then returned
StoreMemory(p) ==
  /\ pc[p] = "returned" /\ call[p].op = "set"
  /\ call' = [call EXCEPT ![p] = NoCall]
  /\ \E ok \in BOOLEAN :
       index' = IF pinecone_enabled /\ ok
                THEN DictSet(index, MemoryKey(req[p].prompt),
                             MemoryRecord(req[p].response, now))
                ELSE index
  /\ Finish(p)
  /\ UNCHANGED <<now, confVars, cacheVars, histVars, pinecone_enabled,
                 semantic_enabled, requests, auditVars>>

Init ==
  /\ now = 0
  /\ cache_ttl \in 1..MaxTTL
  /\ firebase_enabled \in {[p \in Procs |-> b] : b \in BOOLEAN}
  /\ q4d_lens_enabled = FALSE
  /\ backend = "up"
  /\ memory_cache = [p \in Procs |-> EmptyDict]
  /\ memory_cache_expiry = [p \in Procs |-> EmptyDict]
  /\ firestore = EmptyDict
  /\ pc = [p \in Procs |-> "idle"]
  /\ call = [p \in Procs |-> NoCall]
  /\ last_op = NoOp
  /\ last_set = [p \in Procs |-> EmptyDict]
  /\ latest_set = EmptyDict
  /\ pinecone_enabled \in BOOLEAN
  \* the semantic search is part of the persistent memory block, line 1814
  /\ semantic_enabled \in {b \in BOOLEAN : b => pinecone_enabled}
  /\ index = EmptyDict
  /\ req = [p \in Procs |-> NoReq]
  /\ requests = 0
  /\ governance_enabled = FALSE
  /\ blockchain_enabled = FALSE
  /\ audit_trail = <<>>
  /\ uuids = 0
  /\ metrics = Unobserved
  /\ LoopOff /\ LimiterOff

Next ==
  \/ \E p \in Procs, prompt \in Prompts : StartRequest(p, prompt)
  \/ \E p \in Procs : RetrieveByKey(p)
  \/ \E p \in Procs : SearchSemantic(p)
  \/ \E p \in Procs : RetrieveSimilar(p)
  \/ \E p \in Procs : CheckCache(p)
  \/ \E p \in Procs : GetDelete(p)
  \/ \E p \in Procs : AfterGet(p)
  \/ \E p \in Procs, response \in Responses : ProviderAnswers(p, response)
  \/ \E p \in Procs : ProviderFails(p)
  \/ \E p \in Procs : SetWrite(p)
  \/ \E p \in Procs : StoreMemory(p)
  \/ Tick

Spec == Init /\ [][Next]_vars

\* ------------------------------------------- one worker with governance
\* ConfigurationManager, lines 1311-1334: every component is configured
InitAudit ==
  /\ now = 0
  /\ cache_ttl \in 1..MaxTTL
  /\ firebase_enabled = [p \in Procs |-> TRUE]
  /\ q4d_lens_enabled = FALSE
  /\ backend = "up"
  /\ memory_cache = [p \in Procs |-> EmptyDict]
  /\ memory_cache_expiry = [p \in Procs |-> EmptyDict]
  /\ firestore = EmptyDict
  /\ pc = [p \in Procs |-> "idle"]
  /\ call = [p \in Procs |-> NoCall]
  /\ last_op = NoOp
  /\ last_set = [p \in Procs |-> EmptyDict]
  /\ latest_set = EmptyDict
  /\ pinecone_enabled = TRUE
  /\ semantic_enabled = TRUE
  /\ index = EmptyDict
  /\ req = [p \in Procs |-> NoReq]
  /\ requests = 0
  /\ governance_enabled = TRUE
  /\ blockchain_enabled \in BOOLEAN
  /\ audit_trail = <<>>
  /\ uuids = 0
  /\ metrics = Unobserved
  /\ LoopOff /\ LimiterOff

\* the worker that serves the requests
Worker == 1

NextAudit ==
  \/ \E prompt \in Prompts : StartRequest(Worker, prompt)
  \/ RetrieveByKey(Worker)
  \/ SearchSemantic(Worker)
  \/ RetrieveSimilar(Worker)
  \/ CheckCache(Worker)
  \/ GetDelete(Worker)
  \/ AfterGet(Worker)
  \/ \E response \in Responses : ProviderAnswers(Worker, response)
  \/ ProviderFails(Worker)
  \/ SetWrite(Worker)
  \/ StoreMemory(Worker)
  \/ Tick

SpecAudit == InitAudit /\ [][NextAudit]_vars

\* ------------------------------------------------- request flow: claims
InFlight(p) == pc[p] # "idle"
Stages(p) == {req[p].trace[i] : i \in DOMAIN req[p].trace}
LastStage(p) ==
  IF req[p].trace = <<>> THEN "none" ELSE req[p].trace[Len(req[p].trace)]

Matched(p) ==
  /\ InFlight(p) /\ LastStage(p) = "semantic" /\ req[p].similar_key # <<>>

\* C5 as stated: a top match whose score equals the threshold is accepted.
AcceptedAtThreshold ==
  \A p \in Procs :
    (Matched(p) /\ req[p].score = SemanticThreshold)
      => pc[p] = "retrieve_similar"

\* C5 amended: a top match is accepted exactly when its score is above the
\* threshold; a score equal to the threshold or below it is not accepted,
\* and only an accepted match is answered from the similar record.
AcceptedAboveThreshold ==
  \A p \in Procs :
    /\ Matched(p)
         => (pc[p] = "retrieve_similar" <=> req[p].score > SemanticThreshold)
    /\ pc[p] = "retrieve_similar" => Matched(p)

\* a top match scored exactly the threshold and the request went on to the
\* cache
ThresholdScoreRejected ==
  \E p \in Procs :
    /\ Matched(p) /\ req[p].score = SemanticThreshold
    /\ pc[p] = "check_cache"

\* the request of p is answered from the record stored under its own key
MemoryHit(p) == pc[p] = "retrieve_by_key" /\ pc'[p] = "idle"

\* C6: once cache_ttl has passed since the response of a prompt was stored,
\* no tier answers a request for the prompt with the stored response; here
\* for the tier that is consulted first, the persistent memory by key.
ExpiredIsMiss ==
  [][\A p \in Procs :
       MemoryHit(p)
         => index[MemoryKey(req[p].prompt)].timestamp + cache_ttl > now]_vars

\* p has called the provider and the provider has answered
Answered(p) == pc[p] \in {"set_write", "returned"} /\ call[p].op = "set"

\* C8: nothing makes a request that missed every tier wait for another
\* request for the same prompt: the provider call of a request that is about
\* to make it can always be made.
NoInFlightLock ==
  \A p \in Procs :
    pc[p] = "call_provider"
      => \A response \in Responses : ENABLED ProviderAnswers(p, response)

\* two requests for one prompt, both started while no tier held it, have
\* both been answered by the provider
BothComputed ==
  \E prompt \in Prompts :
    \A p \in Procs :
      /\ req[p].prompt = prompt /\ req[p].cold
      /\ LastStage(p) = "cache"
      /\ Answered(p)

\* the request of p is answered from the record of a similar prompt
SemanticHit(p) == pc[p] = "retrieve_similar" /\ pc'[p] = "idle"

\* C11: when a request is answered as a semantic hit, the in-memory tier of
\* the serving process holds the returned value under the key of the
\* requested prompt.
SemanticHitPopulates ==
  [][\A p \in Procs :
       SemanticHit(p)
         => LET cache_key == generate_cache_key(req[p].prompt) IN
            /\ cache_key \in DOMAIN memory_cache'[p]
            /\ memory_cache'[p][cache_key]
                 = index[req[p].similar_key].response]_vars

\* the prompt whose response is stored under a memory key
PromptOf(memory_key) == memory_key[2][2]

\* C12: the vector indexed with a stored result is the embedding of the
\* payload (the prompt) the result was computed for.
VectorIsPromptEmbedding ==
  \A k \in DOMAIN index : index[k].vector = Embed(PromptOf(k))

\* C13: a request whose semantic stage failed (embedding or vector index)
\* has not been ended by the failure: it has no match, goes on with the cache
\* lookup and from there, on a miss, to the provider.
SemanticFailureIsMiss ==
  \A p \in Procs :
    req[p].semantic_error
      => /\ req[p].similar_key = <<>>
         /\ pc[p] \in {"check_cache", "get_delete", "returned",
                       "call_provider", "set_write"}
         /\ LastStage(p) = "semantic" <=> pc[p] = "check_cache"

\* the semantic stage of a request failed, its cache lookup missed and it is
\* about to call the provider
SemanticFailureThenCompute ==
  \E p \in Procs : req[p].semantic_error /\ pc[p] = "call_provider"

HitOrCompute ==
  {"memory_hit", "semantic_hit", "cache_hit", "api_call_success",
   "api_call_error", "api_call_failure"}

\* C15: every hit or compute transaction of the audit trail carries a
\* transaction_id that is the id of a request transaction recorded before it.
CorrelatedWithRequest ==
  \A i \in DOMAIN audit_trail :
    audit_trail[i].record.type \in HitOrCompute
      => \E j \in 1..(i - 1) :
           /\ audit_trail[j].record.type = "claude_request"
           /\ audit_trail[j].record.id
                = audit_trail[i].record.data.transaction_id

\* C16: a record of the audit trail is the record that was handed to the
\* trail: nothing is added to it, changed or removed afterwards.
AuditRecordImmutable ==
  \A i \in DOMAIN audit_trail :
    audit_trail[i].record = audit_trail[i].handed

\* ------------------------------------------------- structured payloads
\* a structured payload: a dict, as the sequence of its (field, value) pairs
\* in insertion order
Payloads ==
  {<<<<"model", "m">>, <<"task", "t">>>>, <<<<"task", "t">>, <<"model", "m">>>>}

\* the fields of a payload with their values, whatever their order
Fields(payload) == {payload[i] : i \in DOMAIN payload}

\* json.dumps(data) with its defaults (lines 1793 and 1796): the text lists
\* the pairs in the order of the dict
Dumps(payload) == <<"json", payload>>

\* line 1871 after lines 1786-1796: the cache lookup for a structured payload
PayloadGet(p, payload) == CacheGet(p, Dumps(payload))

\* line 1998 after lines 1786-1796: caching the response for a payload
PayloadSet(p, payload, response) == CacheSet(p, Dumps(payload), response)

NextPayload ==
  \/ \E payload \in Payloads : PayloadGet(Worker, payload)
  \/ \E payload \in Payloads, response \in Responses :
       PayloadSet(Worker, payload, response)
  \/ GetDelete(Worker)
  \/ SetWrite(Worker)
  \/ Tick

SpecPayload == InitCache /\ [][NextPayload]_vars

\* C17: two payloads with the same fields and values have the same cache
\* key, so the in-memory tier holds an entry for the one exactly when it
\* holds it for the other.
KeyCanonical ==
  \A a \in Payloads, b \in Payloads :
    Fields(a) = Fields(b)
      => (generate_cache_key(Dumps(a)) \in DOMAIN memory_cache[Worker]
            <=> generate_cache_key(Dumps(b)) \in DOMAIN memory_cache[Worker])

\* ------------------------------------------------- the Q4D-lens query path
\* CacheManager.__init__ with Firestore configured and reachable; the lens
\* is on or off (line 1472)
InitLens ==
  /\ now = 0
  /\ cache_ttl \in 1..MaxTTL
  /\ firebase_enabled = [p \in Procs |-> TRUE]
  /\ q4d_lens_enabled \in BOOLEAN
  /\ backend = "up"
  /\ memory_cache = [p \in Procs |-> EmptyDict]
  /\ memory_cache_expiry = [p \in Procs |-> EmptyDict]
  /\ firestore = EmptyDict
  /\ pc = [p \in Procs |-> "idle"]
  /\ call = [p \in Procs |-> NoCall]
  /\ last_op = NoOp
  /\ last_set = [p \in Procs |-> EmptyDict]
  /\ latest_set = EmptyDict
  /\ pinecone_enabled = FALSE
  /\ semantic_enabled = FALSE
  /\ index = EmptyDict
  /\ req = [p \in Procs |-> NoReq]
  /\ requests = 0
  /\ governance_enabled = FALSE
  /\ blockchain_enabled = FALSE
  /\ audit_trail = <<>>
  /\ uuids = 0
  /\ metrics = Unobserved
  /\ LoopOff /\ LimiterOff

SpecLens == InitLens /\ [][NextCache]_vars

\* C18: with the lens on or off, a get that was not served by the memory
\* tier returns what the standard document lookup returns: the response of
\* the document stored under the key when that document is live.
LensEquivalent ==
  (/\ last_op.op = "get" /\ last_op.tier # "memory"
   /\ LastKey \in DOMAIN firestore
   /\ DocLive(firestore[LastKey].expiry, last_op.time))
    => last_op.response = firestore[LastKey].response

\* ------------------------------------------------- any configured TTL
\* --cache-ttl is an int that is stored as it is given (lines 68-69) and read
\* by CacheManager.__init__ (line 1470): a negative value, zero, a positive one
TtlOptions == {-1, 0, 1}

InitTtl ==
  /\ now = 0
  /\ cache_ttl \in TtlOptions
  /\ firebase_enabled = [p \in Procs |-> TRUE]
  /\ q4d_lens_enabled = FALSE
  /\ backend = "up"
  /\ memory_cache = [p \in Procs |-> EmptyDict]
  /\ memory_cache_expiry = [p \in Procs |-> EmptyDict]
  /\ firestore = EmptyDict
  /\ pc = [p \in Procs |-> "idle"]
  /\ call = [p \in Procs |-> NoCall]
  /\ last_op = NoOp
  /\ last_set = [p \in Procs |-> EmptyDict]
  /\ latest_set = EmptyDict
  /\ pinecone_enabled = FALSE
  /\ semantic_enabled = FALSE
  /\ index = EmptyDict
  /\ req = [p \in Procs |-> NoReq]
  /\ requests = 0
  /\ governance_enabled = FALSE
  /\ blockchain_enabled = FALSE
  /\ audit_trail = <<>>
  /\ uuids = 0
  /\ metrics = Unobserved
  /\ LoopOff /\ LimiterOff

SpecTtl == InitTtl /\ [][NextCache]_vars

\* C19: the entries a set has just written, in the memory tier and in the
\* Firestore tier, expire strictly after the time the set was made.
ExpiryAfterCreation ==
  LET p == last_op.proc IN
  (last_op.op = "set" /\ Settled(p))
    => /\ memory_cache_expiry[p][LastKey] > last_op.time
       /\ firestore[LastKey].expiry > last_op.time

\* ------------------------------------------------- record lifecycle
\* the event loop runs every handler that can take a step and time goes on
\* (BaseAutomation.run, lines 1679-1700)
SpecLive == Init /\ [][Next]_vars /\ WF_vars(Next)

\* the index holds the record stored for the prompt at time t
Holds(prompt, t) ==
  /\ MemoryKey(prompt) \in DOMAIN index
  /\ index[MemoryKey(prompt)].timestamp = t

RecordsNeverDeleted ==
  [][\A k \in DOMAIN index : k \in DOMAIN index']_vars

\* ------------------------------------------------- started with --no-cache
\* main, lines 65-66: --no-cache sets firebase.enabled to False and nothing
\* else; CacheManager.__init__ (line 1467) reads it
InitNoCache ==
  /\ Init
  /\ firebase_enabled = [p \in Procs |-> FALSE]

\* with the Firestore tier disabled get and set make no remote call
NextNoCache ==
  \/ \E p \in Procs, prompt \in Prompts : StartRequest(p, prompt)
  \/ \E p \in Procs : RetrieveByKey(p)
  \/ \E p \in Procs : SearchSemantic(p)
  \/ \E p \in Procs : RetrieveSimilar(p)
  \/ \E p \in Procs : CheckCache(p)
  \/ \E p \in Procs : AfterGet(p)
  \/ \E p \in Procs, response \in Responses : ProviderAnswers(p, response)
  \/ \E p \in Procs : ProviderFails(p)
  \/ \E p \in Procs : StoreMemory(p)
  \/ Tick

SpecNoCache == InitNoCache /\ [][NextNoCache]_vars

\* C21: started with --no-cache, no request is answered from a cache: the
\* cache lookup of every request comes back empty, so the request goes on to
\* the provider.
NoCacheNoHit ==
  \A p \in Procs :
    (pc[p] = "returned" /\ call[p].op = "get") => call[p].response = None

\* ------------------------------------------------- payloads without a key
\* a str that str.encode() cannot encode as UTF-8 (a lone surrogate)
Surrogate == "lone surrogate"

\* line 1528: prompt.encode() succeeds
Encodes(prompt) == prompt # Surrogate

\* what _generate_cache_key raises for such a prompt (line 1528, no handler)
EncodeError == "UnicodeEncodeError"

\* lines 1540 and 1610: _generate_cache_key is the first statement of get and
\* of set, outside their try blocks: its exception reaches the caller
KeyRaises(p, op, prompt) ==
  /\ pc[p] = "idle"
  /\ last_op' = [NoOp EXCEPT !.op = op, !.proc = p, !.prompt = prompt,
                             !.time = now, !.raised = EncodeError]
  /\ UNCHANGED <<now, confVars, cacheVars, pc, call, last_set, latest_set,
                 reqVars>>

\* cache_manager.get(prompt) for any str
GetAny(p, prompt) ==
  IF Encodes(prompt) THEN CacheGet(p, prompt) ELSE KeyRaises(p, "get", prompt)

\* cache_manager.set(prompt, response) for any str
SetAny(p, prompt, response) ==
  IF Encodes(prompt) THEN CacheSet(p, prompt, response)
  ELSE KeyRaises(p, "set", prompt)

NextInvalid ==
  \/ \E p \in Procs, prompt \in CachePrompts \cup {Surrogate} : GetAny(p, prompt)
  \/ \E p \in Procs, prompt \in CachePrompts \cup {Surrogate},
        response \in Responses : SetAny(p, prompt, response)
  \/ \E p \in Procs : GetDelete(p)
  \/ \E p \in Procs : SetWrite(p)
  \/ Tick

SpecInvalid == InitCache /\ [][NextInvalid]_vars

\* C22: a get or set whose payload cannot be encoded ends with the error
\* value InvalidPayload and leaves every cache tier as it was, and no get or
\* set ends with any other error.
InvalidPayloadOnly ==
  [][/\ last_op'.raised \in {"none", "InvalidPayload"}
     /\ (last_op' # last_op /\ ~Encodes(last_op'.prompt))
          => /\ last_op'.raised = "InvalidPayload"
             /\ UNCHANGED cacheVars]_vars

\* the part the code keeps: the failing call changes no cache tier
KeyErrorChangesNothing ==
  [][(last_op' # last_op /\ last_op'.raised # "none")
       => UNCHANGED cacheVars]_vars

\* ------------------------------------------------- invalidate
\* what Python raises for a call of a method the class does not have
NoSuchMethod == "AttributeError"

\* class CacheManager, lines 1455-1652, has __init__, _generate_cache_key,
\* get and set and nothing else: cache_manager.invalidate(prompt) raises
\* AttributeError and touches nothing
Invalidate(p, prompt) ==
  /\ pc[p] = "idle"
  /\ last_op' = [NoOp EXCEPT !.op = "invalidate", !.proc = p,
                             !.prompt = prompt, !.time = now,
                             !.raised = NoSuchMethod]
  /\ UNCHANGED <<now, confVars, cacheVars, pc, call, last_set, latest_set,
                 reqVars>>

NextInvalidate ==
  \/ \E p \in Procs, prompt \in CachePrompts : CacheGet(p, prompt)
  \/ \E p \in Procs, prompt \in CachePrompts, response \in Responses :
       CacheSet(p, prompt, response)
  \/ \E p \in Procs, prompt \in CachePrompts : Invalidate(p, prompt)
  \/ \E p \in Procs : GetDelete(p)
  \/ \E p \in Procs : SetWrite(p)
  \/ Tick

SpecInvalidate == InitCache /\ [][NextInvalidate]_vars

\* C23: a get that follows the same caller's invalidate of the key with no
\* time in between misses.
GetMissesAfterInvalidate ==
  [][(/\ last_op.op = "invalidate" /\ last_op'.op = "get"
      /\ last_op'.proc = last_op.proc /\ last_op'.prompt = last_op.prompt
      /\ last_op'.time = last_op.time)
       => last_op'.response = None]_vars

FailingStep(p) ==
  /\ pc'[p] # pc[p] \/ req'[p] # req[p]
  /\ pc[p] \notin {"idle", "set_write"}
  /\ ~(pc[p] = "returned" /\ call[p].op = "set")
  /\ pc'[p] # "set_write"
  /\ ~(pc'[p] = "returned" /\ call'[p].op = "set")
  /\ ~(pc'[p] = "returned" /\ call'[p].op = "get" /\ call'[p].response # None)

EvictionSparesLive ==
  [][\A p \in Procs :
       (pc[p] = "get_delete" /\ pc'[p] # "get_delete")
         => \A k \in DOMAIN firestore :
              DocLive(firestore[k].expiry, now) => k \in DOMAIN firestore']_vars

\* ------------------------------------------------- the shape of the trail
TypeAt(i) == audit_trail[i].record.type

Terminal ==
  {"memory_hit", "semantic_hit", "cache_hit", "api_call_success",
   "api_call_failure"}

\* every call of record_transaction so far has recorded: each request drew
\* one uuid for itself and each record one
NoAuditFailure == uuids = requests + Len(audit_trail)

\* C27: with governance enabled and every recording done, the audit trail of
\* a worker is a sequence of requests, each one request record, then
\* api_call_error records (only before an api_call_success or
\* api_call_failure), then exactly one terminal record; the request in flight
\* has its request record and no terminal record yet, unless it was answered
\* and is caching the answer.
OneOutcomePerRequest ==
  NoAuditFailure =>
    /\ \A i \in DOMAIN audit_trail :
         LET prev == IF i = 1 THEN "none" ELSE TypeAt(i - 1) IN
         /\ TypeAt(i) = "claude_request" => prev \in Terminal \cup {"none"}
         /\ TypeAt(i) \in {"memory_hit", "semantic_hit", "cache_hit"}
              => prev = "claude_request"
         /\ TypeAt(i) \in {"api_call_error", "api_call_success",
                           "api_call_failure"}
              => prev \in {"claude_request", "api_call_error"}
    /\ Cardinality({i \in DOMAIN audit_trail : TypeAt(i) = "claude_request"})
         = requests
    /\ LET last == IF audit_trail = <<>> THEN "none"
                   ELSE TypeAt(Len(audit_trail))
       IN IF InFlight(Worker)
          THEN \/ last \in {"claude_request", "api_call_error"}
               \/ last = "api_call_success" /\ Answered(Worker)
          ELSE last \in Terminal \cup {"none"}

\* two requests are on record in full: one that failed an attempt and was
\* then answered, and one served from the cache
TwoRequestsRecorded ==
  /\ NoAuditFailure /\ ~InFlight(Worker)
  /\ Len(audit_trail) = 5
  /\ TypeAt(2) = "api_call_error" /\ TypeAt(3) = "api_call_success"
  /\ TypeAt(5) = "cache_hit"

\* ------------------------------------------------- hit / miss accounting
\* ClaudeAutomation.__init__, lines 1724-1740: every counter starts at 0;
\* persistent memory and semantic modelling are configured, governance is
\* configured or not
InitMetrics ==
  /\ now = 0
  /\ cache_ttl \in 1..MaxTTL
  /\ firebase_enabled = [p \in Procs |-> TRUE]
  /\ q4d_lens_enabled = FALSE
  /\ backend = "up"
  /\ memory_cache = [p \in Procs |-> EmptyDict]
  /\ memory_cache_expiry = [p \in Procs |-> EmptyDict]
  /\ firestore = EmptyDict
  /\ pc = [p \in Procs |-> "idle"]
  /\ call = [p \in Procs |-> NoCall]
  /\ last_op = NoOp
  /\ last_set = [p \in Procs |-> EmptyDict]
  /\ latest_set = EmptyDict
  /\ pinecone_enabled = TRUE
  /\ semantic_enabled = TRUE
  /\ index = EmptyDict
  /\ req = [p \in Procs |-> NoReq]
  /\ requests = 0
  /\ governance_enabled \in BOOLEAN
  /\ blockchain_enabled = FALSE
  /\ audit_trail = <<>>
  /\ uuids = 0
  /\ metrics = [Unobserved EXCEPT !.observed = TRUE]
  /\ LoopOff /\ LimiterOff

SpecMetrics == InitMetrics /\ [][NextAudit]_vars

\* the worker is in the lookup phase of its request (lines 1814-1887)
InLookup ==
  \/ pc[Worker] \in {"retrieve_by_key", "search_semantic", "retrieve_similar",
                     "check_cache", "get_delete"}
  \/ pc[Worker] = "returned" /\ call[Worker].op = "get"

CacheIdle ==
  /\ now = 0
  /\ cache_ttl = 1
  /\ firebase_enabled = [p \in Procs |-> FALSE]
  /\ q4d_lens_enabled = FALSE
  /\ backend = "up"
  /\ memory_cache = [p \in Procs |-> EmptyDict]
  /\ memory_cache_expiry = [p \in Procs |-> EmptyDict]
  /\ firestore = EmptyDict
  /\ pc = [p \in Procs |-> "idle"]
  /\ call = [p \in Procs |-> NoCall]
  /\ last_op = NoOp
  /\ last_set = [p \in Procs |-> EmptyDict]
  /\ latest_set = EmptyDict
  /\ pinecone_enabled = FALSE
  /\ semantic_enabled = FALSE
  /\ index = EmptyDict
  /\ req = [p \in Procs |-> NoReq]
  /\ requests = 0
  /\ governance_enabled = FALSE
  /\ blockchain_enabled = FALSE
  /\ audit_trail = <<>>
  /\ uuids = 0
  /\ metrics = Unobserved

cacheSide ==
  <<now, cache_ttl, firebase_enabled, q4d_lens_enabled, backend,
    governance_enabled, blockchain_enabled, cacheVars, pc, call, histVars,
    reqVars>>

\* the largest max_errors of the configurations tried
MaxErrors == 3
\* automation.interval, in tenths of a second: 1600 s, 3000 s and 4000 s
Intervals == {16000, 30000, 40000}
\* automation.backoff_factor as a fraction: 1.5 (the default) and 2
Factors == {<<3, 2>>, <<2, 1>>}
\* the time execute_task took, in tenths of a second
Elapsed == {0, 50000}

\* line 195: 3600 seconds, in tenths of a second
MaxBackoff == 36000
\* line 224: 0.1 seconds, in tenths of a second
MinSleep == 1

Min(a, b) == IF a < b THEN a ELSE b
Max(a, b) == IF a > b THEN a ELSE b

\* lines 193-196 and 203-206: min(current_interval * backoff_factor, 3600)
NextIntervalUncapped(current) ==
  (current * automation.backoff_factor[1]) \div automation.backoff_factor[2]
NextInterval(current) ==
  Min((current * automation.backoff_factor[1])
        \div automation.backoff_factor[2], MaxBackoff)

\* lines 178-179: run() is called
Run ==
  /\ ~running /\ stopped_by = "none"
  /\ running' = TRUE
  /\ current_interval' = automation.interval
  /\ UNCHANGED <<error_count, automation, sleep_time, streak, stopped_by,
                 cacheSide, limiterVars>>

\* lines 181-228: one turn of the loop; execute_task returns True or False
\* or raises, after taking elapsed
Iteration(outcome, elapsed) ==
  /\ running
  /\ LET failed == outcome # "True"
         count == IF failed THEN error_count + 1 ELSE 0
         interval == IF failed THEN NextInterval(current_interval)
                     ELSE automation.interval
         stop == count >= automation.max_errors
     IN /\ error_count' = count
        /\ current_interval' = interval
        /\ running' = ~stop
        /\ stopped_by' = IF stop THEN "self" ELSE stopped_by
        /\ sleep_time' = IF stop THEN sleep_time
                         ELSE Max(MinSleep, interval - elapsed)
        /\ streak' = IF failed THEN streak + 1 ELSE 0
  /\ UNCHANGED <<automation, cacheSide, limiterVars>>

\* lines 452-463: a signal arrives and its handler calls stop()
SignalStop ==
  /\ running
  /\ running' = FALSE
  /\ stopped_by' = "caller"
  /\ UNCHANGED <<error_count, current_interval, automation, sleep_time,
                 streak, cacheSide, limiterVars>>

InitLoop ==
  /\ CacheIdle /\ LimiterOff
  /\ running = FALSE
  /\ error_count = 0
  /\ current_interval = 0
  /\ automation \in [max_errors : 1..MaxErrors, interval : Intervals,
                     backoff_factor : Factors]
  /\ sleep_time = 0
  /\ streak = 0
  /\ stopped_by = "none"

NextLoop ==
  \/ Run
  \/ \E outcome \in {"True", "False", "raised"}, elapsed \in Elapsed :
       Iteration(outcome, elapsed)
  \/ SignalStop

SpecLoop == InitLoop /\ [][NextLoop]_vars

\* C29: run has stopped itself exactly when max_errors executions in a row
\* have failed (and stops as soon as they have); after a successful execution
\* error_count is 0 and the interval is the base interval; the interval and
\* the sleep after a failed execution are at most 3600 seconds.
ErrorBudget ==
  /\ (stopped_by = "self") <=> (streak >= automation.max_errors)
  /\ streak <= automation.max_errors
  /\ stopped_by = "self" => ~running
  /\ (running /\ streak = 0)
       => error_count = 0 /\ current_interval = automation.interval
  /\ streak > 0 => current_interval <= MaxBackoff
  /\ (running /\ streak > 0) => sleep_time <= MaxBackoff

\* the loop stopped itself after more than one failure in a row, the interval
\* being held at the maximum
StoppedAtCap ==
  /\ stopped_by = "self" /\ ~running
  /\ streak = automation.max_errors /\ streak > 1
  /\ current_interval = MaxBackoff
  /\ automation.interval > MaxBackoff

\* ------------------------------ SynthesiaRateLimiter (synthesia_rate_limiter)
\* the last reading of the limiter's clock
MaxClock == 4

\* two of the endpoint types of lines 10-15: one with an hour counter, one
\* without
Endpoints == {"create_video", "list_videos"}

\* lines 26-31, scaled down: 60 / 300 / 1000 and 60 / 40000 requests
Limits ==
  [create_video |-> [minute |-> 2, hour |-> 3, day |-> 4],
   list_videos |-> [minute |-> 2, day |-> 5]]

\* lines 54, 60 and 67: timedelta(minutes=1), (hours=1), (days=1), scaled
\* down to 2, 4 and 8 seconds
PeriodLength == [minute |-> 2, hour |-> 4, day |-> 8]

\* _reset_counters, lines 49-70, at time t: a period that began a full
\* period length ago or more begins again, with its counters at 0
ResetCounts(t) ==
  [e \in DOMAIN request_counts |->
     [period \in DOMAIN request_counts[e] |->
        IF t - last_reset[period] >= PeriodLength[period]
        THEN 0 ELSE request_counts[e][period]]]
ResetTimes(t) ==
  [period \in DOMAIN last_reset |->
     IF t - last_reset[period] >= PeriodLength[period]
     THEN t ELSE last_reset[period]]

\* can_make_request, lines 33-36, on counters that were just reset
CanMakeRequest(counts, endpoint_type) ==
  \A period \in DOMAIN Limits[endpoint_type] :
    counts[endpoint_type][period] < Limits[endpoint_type][period]

\* record_request, lines 44-47
RecordRequest(counts, endpoint_type) ==
  [counts EXCEPT ![endpoint_type] =
     [period \in DOMAIN @ |-> @[period] + 1]]

\* wait_if_needed found the request allowed at time t: the API call is made
\* and record_request counts it (lines 79-81)
Proceed(endpoint_type, t) ==
  /\ request_counts' = RecordRequest(ResetCounts(t), endpoint_type)
  /\ request_log' = [request_log EXCEPT ![endpoint_type] = Append(@, t)]
  /\ waiting' = "none"

\* lines 77-99: a method of SynthesiaAPIHandler is called; wait_if_needed
\* lets it through or starts to wait
ApiCall(endpoint_type) ==
  /\ waiting = "none"
  /\ last_reset' = ResetTimes(clock)
  /\ IF CanMakeRequest(ResetCounts(clock), endpoint_type)
     THEN Proceed(endpoint_type, clock)
     ELSE /\ request_counts' = ResetCounts(clock)
          /\ waiting' = endpoint_type
          /\ UNCHANGED request_log
  /\ UNCHANGED <<clock, cacheSide, loopVars>>

\* lines 40-42: time.sleep(1), _reset_counters, and the test again
WaitSecond ==
  /\ waiting # "none" /\ clock < MaxClock
  /\ clock' = clock + 1
  /\ last_reset' = ResetTimes(clock + 1)
  /\ IF CanMakeRequest(ResetCounts(clock + 1), waiting)
     THEN Proceed(waiting, clock + 1)
     ELSE /\ request_counts' = ResetCounts(clock + 1)
          /\ UNCHANGED <<waiting, request_log>>
  /\ UNCHANGED <<cacheSide, loopVars>>

\* a second passes between two calls
Pass ==
  /\ waiting = "none" /\ clock < MaxClock
  /\ clock' = clock + 1
  /\ UNCHANGED <<request_counts, last_reset, waiting, request_log, cacheSide,
                 loopVars>>

\* SynthesiaRateLimiter.__init__, lines 9-20
InitLimiter ==
  /\ CacheIdle /\ LoopOff
  /\ clock = 0
  /\ request_counts =
       [e \in Endpoints |-> [period \in DOMAIN Limits[e] |-> 0]]
  /\ last_reset = [period \in DOMAIN PeriodLength |-> 0]
  /\ waiting = "none"
  /\ request_log = [e \in Endpoints |-> <<>>]

NextLimiter ==
  \/ \E endpoint_type \in Endpoints : ApiCall(endpoint_type)
  \/ WaitSecond
  \/ Pass

SpecLimiter == InitLimiter /\ [][NextLimiter]_vars

\* the requests of a type recorded in the span of one period that starts at t
RecordedIn(endpoint_type, period, t) ==
  {i \in DOMAIN request_log[endpoint_type] :
     /\ t <= request_log[endpoint_type][i]
     /\ request_log[endpoint_type][i] < t + PeriodLength[period]}

\* C30: the number of requests recorded for an endpoint type within any span
\* of one minute, one hour or one day never exceeds the type's limit for
\* that period.
LimitsRespected ==
  \A endpoint_type \in DOMAIN request_log :
    \A period \in DOMAIN Limits[endpoint_type], t \in 0..MaxClock :
      Cardinality(RecordedIn(endpoint_type, period, t))
        <= Limits[endpoint_type][period]

\* what the counters do ensure: between two resets of a period no more than
\* the limit is counted
CountersWithinLimits ==
  \A endpoint_type \in DOMAIN request_counts :
    \A period \in DOMAIN Limits[endpoint_type] :
      request_counts[endpoint_type][period] <= Limits[endpoint_type][period]

====
